---- MODULE Spec2Model ----
(***************************************************************************)
(* mdboy: the plugin manager of a markdown tool.  The model covers the two *)
(* manager classes of the repository, MarkdownManager (mdboy/manager.py)   *)
(* and PluginManager (mdboy/plugins/manager.py), the plugin base class     *)
(* (equality and hash by class name, commands collected by the metaclass)  *)
(* and the plugins Tag, Title, TitleTags and TableOfContents: what queued   *)
(* commands and hooks do to them, and their transforms of document lines.  *)
(***************************************************************************)
EXTENDS Integers, Sequences, FiniteSets, TLC

\* ------------------------------------------------------------------ bounds
MaxQueue == 2     \* queued commands
MaxTags == 2      \* tags held by all Tag instances together
MaxBatch == 2     \* tuples of one queue_commands call
MaxValid == 6     \* length of the cached _valid_commands list
MaxScope == 2     \* directories in the common scope
MaxLines == 3     \* lines of a document handed to the table of contents

\* ------------------------------------------------------------ the universe
\* Plugin objects: two instances of Tag and one of Title.  id is the object
\* identity, type the class name.
TagA == [type |-> "Tag", id |-> "a"]
TagB == [type |-> "Tag", id |-> "b"]
TitleC == [type |-> "Title", id |-> "c"]
Instances == {TagA, TagB, TitleC}
\* One instance each of TitleTags and TableOfContents.
TitleTagsD == [type |-> "TitleTags", id |-> "d"]
TocE == [type |-> "TableOfContents", id |-> "e"]
PluginTypes == {"Tag", "Title", "TitleTags", "TableOfContents"}
\* An instance the caller constructs only to name a plugin it removes.
TagFresh == [type |-> "Tag", id |-> "f"]
RemoveInputs == Instances \cup {TagFresh}
\* Where commands are queued, the caller registers TagA and TitleC; TagB is
\* a Tag it passes to queue_command without having registered it.
QueueRegistrants == {TagA, TitleC}
QueueRemoveInputs == QueueRegistrants \cup {TagFresh}
TagIds == {"a", "b"}

\* The managers of the repository.
Managers == {"MarkdownManager", "PluginManager"}

Entry(p, cmd, args) == [plugin |-> p, cmd |-> cmd, args |-> args]

\* The (plugin, cmd, args) tuples callers pass to queue_command and
\* remove_queued_command.
Calls ==
    { Entry(TagA, "add_tag", <<"x">>), Entry(TagA, "add_tag", <<"y">>),
      Entry(TagA, "remove_tag", <<"x">>), Entry(TagA, "hook", <<"x">>),
      Entry(TagA, "nope", <<>>), Entry(TagB, "add_tag", <<"x">>),
      Entry(TitleC, "modify_title", <<"x">>), Entry(TitleC, "add_tag", <<"x">>) }

\* Lines are sequences of characters.
TitleLine == <<"#", " ", "T", "\n">>
TextLine == <<"t", "\n">>
Docs == { <<>>, <<TitleLine>>, <<TitleLine, TextLine>> }
\* The file a queued hook is pointed at: absent, or holding a document.
Files == {[exists |-> FALSE, lines |-> <<>>]} \cup
         {[exists |-> TRUE, lines |-> d] : d \in Docs}

VARIABLES
    manager,         \* class of the manager object
    plugins,         \* self.plugins
    queued,          \* self._queued_commands
    valid,           \* self._valid_commands
    last_hash,       \* self._last_plugins_hash
    tags,            \* Tag._tags of each Tag instance
    op,              \* the last call made on the manager
    raised,          \* the exception that call raised to its caller, or "None"
    logged,          \* what that call wrote to the log
    invoked,         \* the queue entries whose callable that call invoked
    root,            \* self._root: <<>> for None, else the components of the path
    included_dirs,   \* self._included_dirs
    included_files,  \* self._included_files
    resolved,        \* what the last plugin_files call returned
    trace,           \* the steps of the last execute call, in order
    doc,             \* the lines a transform is handed, or reads from its file
    result           \* what the last transform call returned

\* The file scope of MarkdownManager and what the document transforms work on.
scopeVars == <<root, included_dirs, included_files, resolved, trace>>
textVars == <<doc, result>>

vars == <<manager, plugins, queued, valid, last_hash, tags,
          op, raised, logged, invoked, scopeVars, textVars>>

\* --------------------------------------------------------------- plugin.py
\* Equality by object identity, as object.__eq__ would give.
PluginEqIdentity(a, b) == a = b

\* MDFPlugin.__eq__: equality by class name.
PluginEq(a, b) == a.type = b.type

\* hash(str) of the class names: distinct numbers, fixed for the process.
NameHash(name) ==
    IF name = "Tag" THEN 1
    ELSE IF name = "Title" THEN 3
    ELSE IF name = "TitleTags" THEN 9
    ELSE 27

\* MDFPlugin.__hash__: the hash of the class name.
PluginHash(p) == NameHash(p.type)

\* The class bodies, in declaration order.  marked: decorated with @command;
\* required and depends: the required_args and depends_on the decorator
\* stored, <<"-">> when the decorator stores none (mdboy/plugin.py) or the
\* attribute is no command.
NoMeta == <<"-">>
Attr(name, kind) ==
    [name |-> name, kind |-> kind, marked |-> FALSE, required |-> NoMeta, depends |-> NoMeta]
Cmd(name, required, depends) ==
    [name |-> name, kind |-> "method", marked |-> TRUE, required |-> required, depends |-> depends]
ClassBody(type) ==
    IF type = "Tag"
    THEN << Attr("tags", "property"),
            Cmd("add_tag", NoMeta, NoMeta),
            Cmd("add_tags", NoMeta, NoMeta),
            Cmd("remove_tag", NoMeta, NoMeta),
            Cmd("remove_tags", NoMeta, NoMeta),
            Attr("hook", "method") >>
    ELSE IF type = "Title"
    THEN << Attr("find_title", "method"),
            Cmd("modify_title", <<"title">>, <<>>) >>
    ELSE IF type = "TitleTags"
    THEN << Cmd("add_tags", <<"tags">>, <<"Title">>) >>
    ELSE << Attr("find_toc", "method"),
            Attr("generate_toclist_from_lines", "method"),
            Cmd("modify_toc", <<>>, <<"Title">>),
            Attr("hook", "method") >>

\* CommandProvider.__new__: _commands holds the marked attributes of the body.
IsMarked(a) == a.marked
Commands(type) ==
    LET cmds == SelectSeq(ClassBody(type), IsMarked)
    IN  [i \in 1..Len(cmds) |-> cmds[i].name]

\* What the base class MDFPlugin gives every plugin.
BaseAttrs == {"commands", "_commands"}

AttrNames(type) ==
    {ClassBody(type)[i].name : i \in 1..Len(ClassBody(type))} \cup BaseAttrs

\* hasattr(plugin, cmd)
HasAttr(p, cmd) == cmd \in AttrNames(p.type)

Range(s) == {s[i] : i \in 1..Len(s)}

\* ------------------------------------------------------------ list helpers
\* plugin in self.plugins
Registered(ps, p) == \E i \in 1..Len(ps) : PluginEq(ps[i], p)

\* list.remove: drops the element at index i.
RemoveAt(s, i) == [j \in 1..(Len(s) - 1) |-> IF j < i THEN s[j] ELSE s[j + 1]]

\* list.remove(x) on self.plugins: the first element equal to x.
FirstPlugin(ps, p) ==
    CHOOSE i \in 1..Len(ps) :
        PluginEq(ps[i], p) /\ \A j \in 1..(i - 1) : ~PluginEq(ps[j], p)

\* --------------------------------------------------------------- text
Whitespace == {" ", "\n", "\t"}

RECURSIVE LStrip(_)
LStrip(s) == IF s # <<>> /\ Head(s) \in Whitespace THEN LStrip(Tail(s)) ELSE s

RECURSIVE RStrip(_)
RStrip(s) ==
    IF s # <<>> /\ s[Len(s)] \in Whitespace
    THEN RStrip(SubSeq(s, 1, Len(s) - 1))
    ELSE s

\* str.strip
Strip(s) == LStrip(RStrip(s))

\* str.startswith
StartsWith(s, prefix) ==
    Len(s) >= Len(prefix) /\ SubSeq(s, 1, Len(prefix)) = prefix

\* The title scan of Tag.hook and Title.find_title: the 0-based index of the
\* first line that, stripped, starts with "# ", or len(lines).
RECURSIVE ScanTitle(_, _)
ScanTitle(lines, idx) ==
    IF idx < Len(lines) /\ ~StartsWith(Strip(lines[idx + 1]), <<"#", " ">>)
    THEN ScanTitle(lines, idx + 1)
    ELSE idx

\* ------------------------------------------------------------------ tag.py
\* list.remove(x) on a list of strings
FirstIndex(s, x) == CHOOSE i \in 1..Len(s) : s[i] = x /\ \A j \in 1..(i - 1) : s[j] # x

\* Tag.hook(path): the exception it ends with, "None" when it returns.
\* The module never defines the logger l, and self.tags > 1 compares a list
\* with an int.
TagHook(tg, file) ==
    IF tg = <<>> THEN "NameError"
    ELSE IF ~file.exists THEN "FileNotFoundError"
    ELSE IF ScanTitle(file.lines, 0) + 1 = Len(file.lines) THEN "None"
    ELSE "TypeError"

\* getattr(plugin, cmd)(*args) on a Tag instance with tags tg.
InvokeTag(cmd, args, tg, file) ==
    IF cmd \in {"tags", "commands", "_commands"}
    THEN [tags |-> tg, exc |-> "TypeError"]
    ELSE IF Len(args) # 1
    THEN [tags |-> tg, exc |-> "TypeError"]
    ELSE IF cmd \in {"add_tag", "add_tags"}
    THEN [tags |-> Append(tg, args[1]), exc |-> "None"]
    ELSE IF cmd \in {"remove_tag", "remove_tags"}
    THEN IF args[1] \in Range(tg)
         THEN [tags |-> RemoveAt(tg, FirstIndex(tg, args[1])), exc |-> "None"]
         ELSE [tags |-> tg, exc |-> "ValueError"]
    ELSE [tags |-> tg, exc |-> TagHook(tg, file)]

\* ---------------------------------------------------------------- title.py
\* getattr(plugin, cmd)(*args) on a Title instance: the exception it ends
\* with.  The arguments of the model are strings, so a call that binds both
\* lines and title fails on the first list operation.
InvokeTitle(cmd, args) ==
    IF cmd \in {"commands", "_commands"} THEN "TypeError"
    ELSE IF cmd = "find_title"
    THEN IF Len(args) = 1 THEN "None" ELSE "TypeError"
    ELSE IF Len(args) = 2 THEN "AttributeError" ELSE "TypeError"

\* ------------------------------------------------------------ titletags.py
\* getattr(plugin, cmd)(*args) on a TitleTags instance: the exception it ends
\* with.  add_tags called with two strings finds no title in its first
\* argument and reads self.tags, which TitleTags does not have.
InvokeTitleTags(cmd, args) ==
    IF cmd \in {"commands", "_commands"} THEN "TypeError"
    ELSE IF Len(args) = 2 THEN "AttributeError" ELSE "TypeError"

\* ------------------------------------------------------------------ toc.py
TocHeading ==
    << "#", " ", "T", "a", "b", "l", "e", " ", "o", "f", " ",
       "C", "o", "n", "t", "e", "n", "t", "s" >>

RECURSIVE TocStart(_, _)
\* find_toc: the 0-based index of the first line that starts with the
\* heading of the table of contents, or len(lines).
TocStart(lines, idx) ==
    IF idx < Len(lines) /\ ~StartsWith(lines[idx + 1], TocHeading)
    THEN TocStart(lines, idx + 1)
    ELSE idx

\* find_toc calls str.contains, which does not exist, on the line after the
\* heading when there is one.
FindTocRaises(lines) == TocStart(lines, 0) + 1 < Len(lines)

\* find_toc(lines): (toc_start, toc_end), 0-based, and the exception raised.
FindToc(lines) ==
    LET toc_start == TocStart(lines, 0)
    IN  [toc_start |-> toc_start, toc_end |-> toc_start + 1,
         exc |-> IF FindTocRaises(lines) THEN "AttributeError" ELSE "None"]

RECURSIVE LStripHash(_)
LStripHash(s) == IF s # <<>> /\ Head(s) = "#" THEN LStripHash(Tail(s)) ELSE s

RECURSIVE RStripHash(_)
RStripHash(s) ==
    IF s # <<>> /\ s[Len(s)] = "#"
    THEN RStripHash(SubSeq(s, 1, Len(s) - 1))
    ELSE s

\* str.strip("#")
StripHash(s) == LStripHash(RStripHash(s))

RECURSIVE CountHash(_)
\* str.count("#")
CountHash(s) ==
    IF s = <<>> THEN 0
    ELSE (IF Head(s) = "#" THEN 1 ELSE 0) + CountHash(Tail(s))

\* ' ' * depth
Spaces(depth) == [i \in 1..depth |-> " "]

\* "---"
TocSeparator == <<"-", "-", "-">>

\* line.startswith("#")
IsHeading(line) == StartsWith(line, <<"#">>)

\* The (title, depth) pair generate_toclist_from_lines appends for a line:
\* the depth is counted in the title, after the markers were stripped.
TocPair(line) ==
    LET title == Strip(StripHash(line))
    IN  [title |-> title, depth |-> CountHash(title)]

\* f"{' ' * depth}- {title}"
TocEntry(pair) == Spaces(pair.depth) \o <<"-", " ">> \o pair.title

\* generate_toclist_from_lines(lines)
GenerateToclistFromLines(lines) ==
    LET headings == SelectSeq(lines, IsHeading)
        toclist == [i \in 1..Len(headings) |-> TocPair(headings[i])]
    IN  <<TocHeading>> \o [i \in 1..Len(toclist) |-> TocEntry(toclist[i])]
            \o <<TocSeparator>>

\* modify_toc(lines): the list it returns and the exception it raises.
ModifyToc(lines) ==
    LET f == FindToc(lines)
        kept == IF f.toc_start # Len(lines)
                THEN SubSeq(lines, 1, f.toc_start) \o SubSeq(lines, f.toc_end + 1, Len(lines))
                ELSE lines
        toc == GenerateToclistFromLines(kept)
    IN  IF f.exc # "None"
        THEN [kind |-> "-", lines |-> <<>>, exc |-> f.exc]
        ELSE [kind |-> "list",
              lines |-> SubSeq(kept, 1, f.toc_start) \o toc
                            \o SubSeq(kept, f.toc_start + 1, Len(kept)),
              exc |-> "None"]

\* TableOfContents.hook(path): the exception it ends with.
TocHook(file) ==
    IF ~file.exists THEN "FileNotFoundError"
    ELSE IF FindTocRaises(file.lines) THEN "AttributeError"
    ELSE "None"

\* getattr(plugin, cmd)(*args) on a TableOfContents instance, the arguments
\* being one-character strings: modify_toc adds a list to a string.
InvokeToc(cmd, args, file) ==
    IF cmd \in {"commands", "_commands"} THEN "TypeError"
    ELSE IF Len(args) # 1 THEN "TypeError"
    ELSE IF cmd = "modify_toc" THEN "TypeError"
    ELSE IF cmd = "hook" THEN TocHook(file)
    ELSE "None"

\* The positional arguments both managers call a queued command with: the
\* queued args and nothing else, func(*args).
CallArgs(e) == e.args

\* The parameters, after self, of the methods that take the document lines.
Parameters(type, cmd) ==
    IF type = "Title" /\ cmd = "modify_title" THEN <<"lines", "title">>
    ELSE IF type = "TitleTags" /\ cmd = "add_tags" THEN <<"lines", "tags">>
    ELSE IF type = "TableOfContents" /\ cmd = "modify_toc" THEN <<"lines">>
    ELSE <<"arg">>

\* The registered plugin equal to the one queued, in place of the one queued.
RegisteredReceiver(e) ==
    IF Registered(plugins, e.plugin)
    THEN plugins[FirstPlugin(plugins, e.plugin)]
    ELSE e.plugin

\* The object a queued command is called on: the plugin of the queue entry,
\* which is the object queue_command was given.
Receiver(e) == e.plugin

\* getattr(plugin, cmd)(*args): the tags of every Tag instance afterwards and
\* the exception raised.
Invoke(e, tg, file) ==
    IF e.plugin.type = "Tag"
    THEN LET r == InvokeTag(e.cmd, CallArgs(e), tg[Receiver(e).id], file)
         IN  [tags |-> [tg EXCEPT ![Receiver(e).id] = r.tags], exc |-> r.exc]
    ELSE IF e.plugin.type = "Title"
    THEN [tags |-> tg, exc |-> InvokeTitle(e.cmd, CallArgs(e))]
    ELSE IF e.plugin.type = "TitleTags"
    THEN [tags |-> tg, exc |-> InvokeTitleTags(e.cmd, CallArgs(e))]
    ELSE [tags |-> tg, exc |-> InvokeToc(e.cmd, CallArgs(e), file)]

\* The class attribute getattr(plugin, cmd) finds.
AttrOf(p, cmd) ==
    LET body == ClassBody(p.type)
        hits == {i \in 1..Len(body) : body[i].name = cmd}
    IN  IF hits = {} THEN Attr(cmd, "property") ELSE body[CHOOSE i \in hits : TRUE]

\* func.required_args of getattr(plugin, cmd)
RequiredArgs(p, cmd) == AttrOf(p, cmd).required

\* func.depends_on of getattr(plugin, cmd)
DependsOn(p, cmd) == AttrOf(p, cmd).depends

\* --------------------------------------------------------------- manager.py
\* MarkdownManager(root=None): no root.
NoRoot == <<>>

\* What a transform returned: nothing yet.
NoResult == [kind |-> "-", lines |-> <<>>]

\* _last_plugins_hash holds the string "None" until the first computation,
\* and then a number: <<>> and <<h>> here.
NoHash == <<>>

RECURSIVE SumHash(_)
\* sum([hash(plugin) for plugin in self.plugins])
SumHash(ps) == IF ps = <<>> THEN 0 ELSE PluginHash(Head(ps)) + SumHash(Tail(ps))

RECURSIVE AllCommands(_)
\* What the loop of valid_commands extends the cached list with.
AllCommands(ps) ==
    IF ps = <<>> THEN <<>> ELSE Commands(Head(ps).type) \o AllCommands(Tail(ps))

\* Equality of two (plugin, cmd, args) tuples.
EntryEq(a, b) == PluginEq(a.plugin, b.plugin) /\ a.cmd = b.cmd /\ a.args = b.args

\* The checks of queue_command: which branch a call takes.
Validate(ps, e) ==
    IF ~Registered(ps, e.plugin) THEN "not in the manager"
    ELSE IF ~HasAttr(e.plugin, e.cmd) THEN "no command"
    ELSE "ok"

\* queue_command on queue q: the queue, the log and the exception afterwards.
\* PluginManager's module defines no logger l, so its l.error raises.
QueueOne(mgr, ps, q, e) ==
    LET v == Validate(ps, e)
    IN  IF v = "ok"
        THEN [queue |-> Append(q, e), log |-> <<>>, exc |-> "None"]
        ELSE IF mgr = "MarkdownManager"
        THEN [queue |-> q, log |-> <<v>>, exc |-> "None"]
        ELSE [queue |-> q, log |-> <<>>, exc |-> "NameError"]

RECURSIVE QueueAll(_, _, _, _, _)
\* queue_commands: queue_command on each tuple, until one raises.
QueueAll(mgr, ps, q, batch, log) ==
    IF batch = <<>>
    THEN [queue |-> q, log |-> log, exc |-> "None"]
    ELSE LET r == QueueOne(mgr, ps, q, Head(batch))
         IN  IF r.exc # "None"
             THEN [queue |-> r.queue, log |-> log \o r.log, exc |-> r.exc]
             ELSE QueueAll(mgr, ps, r.queue, Tail(batch), log \o r.log)

\* The last tuple equal to x instead of the first.
LastEntry(q, e) ==
    CHOOSE i \in 1..Len(q) :
        EntryEq(q[i], e) /\ \A j \in (i + 1)..Len(q) : ~EntryEq(q[j], e)

\* list.remove(x) on self._queued_commands: the first tuple equal to x.
FirstEntry(q, e) ==
    CHOOSE i \in 1..Len(q) :
        EntryEq(q[i], e) /\ \A j \in 1..(i - 1) : ~EntryEq(q[j], e)

\* Newest entry first.
ReverseOrder(q) == [i \in 1..Len(q) |-> q[Len(q) + 1 - i]]

\* A manager that enforced depends_on by leaving out the commands whose
\* dependency plugin is not registered.
DependencyRegistered(e) ==
    \/ DependsOn(e.plugin, e.cmd) = NoMeta
    \/ \A d \in Range(DependsOn(e.plugin, e.cmd)) :
           \E i \in 1..Len(plugins) : plugins[i].type = d
SkipUnmetDependencies(q) == SelectSeq(q, DependencyRegistered)

\* The order in which the for loop of run_queued_commands visits the queue.
IterOrder(q) == q

\* One pass of the loop body of run_queued_commands on entry e: the tags
\* afterwards, whether the callable was called, and the exception raised.
\* PluginManager reads func.required_args and logs through the undefined l.
RunOne(mgr, e, tg, file) ==
    LET r == Invoke(e, tg, file)
        required == RequiredArgs(e.plugin, e.cmd)
    IN  IF mgr = "MarkdownManager"
        THEN [tags |-> r.tags, called |-> TRUE, exc |-> r.exc]
        ELSE IF required = NoMeta
        THEN [tags |-> tg, called |-> FALSE, exc |-> "AttributeError"]
        ELSE IF Len(e.args) < Len(required)
        THEN [tags |-> tg, called |-> FALSE, exc |-> "NameError"]
        ELSE [tags |-> r.tags, called |-> TRUE,
              exc |-> IF r.exc # "None" THEN r.exc ELSE "NameError"]

RECURSIVE RunLoop(_, _, _, _, _)
\* The for loop of run_queued_commands over the entries es.
RunLoop(mgr, es, tg, file, inv) ==
    IF es = <<>>
    THEN [tags |-> tg, invoked |-> inv, exc |-> "None"]
    ELSE LET r == RunOne(mgr, Head(es), tg, file)
             inv2 == IF r.called THEN Append(inv, Head(es)) ELSE inv
         IN  IF r.exc # "None"
             THEN [tags |-> r.tags, invoked |-> inv2, exc |-> r.exc]
             ELSE RunLoop(mgr, Tail(es), r.tags, file, inv2)

TotalTags(tg) == Len(tg["a"]) + Len(tg["b"])

Init ==
    /\ manager \in Managers
    /\ plugins = <<>>
    /\ queued = <<>>
    /\ valid = <<>>
    /\ last_hash = NoHash
    /\ tags = [i \in TagIds |-> <<>>]
    /\ op = "init"
    /\ raised = "None"
    /\ logged = <<>>
    /\ invoked = <<>>
    /\ root = NoRoot
    /\ included_dirs = [k \in {"common"} |-> <<>>]
    /\ included_files = [k \in {"common"} |-> <<>>]
    /\ resolved = <<>>
    /\ trace = <<>>
    /\ doc = <<>>
    /\ result = NoResult

\* add_plugin; the caller registers each plugin object once.
AddPlugin(p) ==
    /\ p \notin Range(plugins)
    /\ plugins' = Append(plugins, p)
    /\ op' = "add_plugin"
    /\ raised' = "None"
    /\ logged' = <<>>
    /\ invoked' = <<>>
    /\ UNCHANGED <<scopeVars, textVars, manager, queued, valid, last_hash, tags>>

\* remove_plugin
RemovePlugin(p) ==
    /\ IF Registered(plugins, p)
       THEN /\ plugins' = RemoveAt(plugins, FirstPlugin(plugins, p))
            /\ raised' = "None"
       ELSE /\ plugins' = plugins
            /\ raised' = "ValueError"
    /\ op' = "remove_plugin"
    /\ logged' = <<>>
    /\ invoked' = <<>>
    /\ UNCHANGED <<scopeVars, textVars, manager, queued, valid, last_hash, tags>>

\* A manager that recomputes on every read.
CacheAlwaysStale(last, ps) == TRUE

\* self._last_plugins_hash != plugins_hash
CacheStale(last, ps) == last # <<SumHash(ps)>>

\* valid_commands (a property read)
ReadValidCommands ==
    /\ IF CacheStale(last_hash, plugins)
       THEN /\ Len(valid) + Len(AllCommands(plugins)) <= MaxValid
            /\ valid' = valid \o AllCommands(plugins)
            /\ last_hash' = <<SumHash(plugins)>>
       ELSE UNCHANGED <<valid, last_hash>>
    /\ op' = "valid_commands"
    /\ raised' = "None"
    /\ logged' = <<>>
    /\ invoked' = <<>>
    /\ UNCHANGED <<scopeVars, textVars, manager, plugins, queued, tags>>

\* queue_command
QueueCommand(p, cmd, args) ==
    LET r == QueueOne(manager, plugins, queued, Entry(p, cmd, args))
    IN  /\ Len(r.queue) <= MaxQueue
        /\ queued' = r.queue
        /\ op' = "queue_command"
        /\ raised' = r.exc
        /\ logged' = r.log
        /\ invoked' = <<>>
        /\ UNCHANGED <<scopeVars, textVars, manager, plugins, valid, last_hash, tags>>

\* queue_commands
QueueCommands(batch) ==
    LET r == QueueAll(manager, plugins, queued, batch, <<>>)
    IN  /\ Len(r.queue) <= MaxQueue
        /\ queued' = r.queue
        /\ op' = "queue_commands"
        /\ raised' = r.exc
        /\ logged' = r.log
        /\ invoked' = <<>>
        /\ UNCHANGED <<scopeVars, textVars, manager, plugins, valid, last_hash, tags>>

\* remove_queued_command
RemoveQueuedCommand(p, cmd, args) ==
    LET e == Entry(p, cmd, args)
    IN  /\ IF \E i \in 1..Len(queued) : EntryEq(queued[i], e)
           THEN /\ queued' = RemoveAt(queued, FirstEntry(queued, e))
                /\ raised' = "None"
           ELSE /\ queued' = queued
                /\ raised' = "ValueError"
        /\ op' = "remove_queued_command"
        /\ logged' = <<>>
        /\ invoked' = <<>>
        /\ UNCHANGED <<scopeVars, textVars, manager, plugins, valid, last_hash, tags>>

\* run_queued_commands; file is what a queued hook finds at its path.
RunQueuedCommands(file) ==
    LET r == RunLoop(manager, IterOrder(queued), tags, file, <<>>)
    IN  /\ TotalTags(r.tags) <= MaxTags
        /\ tags' = r.tags
        /\ queued' = IF r.exc = "None" THEN <<>> ELSE queued
        /\ op' = "run_queued_commands"
        /\ raised' = r.exc
        /\ logged' = <<>>
        /\ invoked' = r.invoked
        /\ UNCHANGED <<scopeVars, textVars, manager, plugins, valid, last_hash>>

\* The lists a caller passes to queue_commands.
BatchCalls ==
    { Entry(TagA, "add_tag", <<"x">>), Entry(TagA, "nope", <<>>),
      Entry(TitleC, "modify_title", <<"x">>) }
Batches == UNION {[1..n -> BatchCalls] : n \in 0..MaxBatch}

Next ==
    \/ \E p \in QueueRegistrants : AddPlugin(p)
    \/ \E p \in QueueRemoveInputs : RemovePlugin(p)
    \/ \E c \in Calls : QueueCommand(c.plugin, c.cmd, c.args)
    \/ \E batch \in Batches : QueueCommands(batch)
    \/ \E c \in Calls : RemoveQueuedCommand(c.plugin, c.cmd, c.args)
    \/ \E file \in Files : RunQueuedCommands(file)

Spec == Init /\ [][Next]_vars

\* The registry and its cached list of valid commands.
NextValid ==
    \/ \E p \in Instances : AddPlugin(p)
    \/ \E p \in RemoveInputs : RemovePlugin(p)
    \/ ReadValidCommands

SpecValid == Init /\ [][NextValid]_vars

\* The registry read while commands are queued.
CacheCalls ==
    { Entry(TagA, "add_tag", <<"x">>), Entry(TitleC, "modify_title", <<"x">>) }

NextCache ==
    \/ \E p \in Instances : AddPlugin(p)
    \/ \E p \in RemoveInputs : RemovePlugin(p)
    \/ \E c \in CacheCalls : QueueCommand(c.plugin, c.cmd, c.args)
    \/ ReadValidCommands

SpecCache == Init /\ [][NextCache]_vars

\* ----------------------------------------------- manager.py: file scope
\* MarkdownManager(root): no root, or the directory r.
Roots == {NoRoot, <<"r">>}

\* plugin=None
NoPlugin == [type |-> "None", id |-> "-"]

\* Paths are sequences of components.  The disk the manager works on: every
\* directory named d holds a.md and, one level down, s/b.md; every directory
\* named g holds b.md and s/b.md; files named c.md exist; nothing named nx or
\* nx.md does.
IsDir(path) == path # <<>> /\ path[Len(path)] \in {"d", "g"}
IsFile(path) == path # <<>> /\ path[Len(path)] \in {"a.md", "b.md", "c.md"}

\* d.glob("**/*.md"), in the order the disk lists the files.
Glob(d) ==
    IF ~IsDir(d) THEN <<>>
    ELSE IF d[Len(d)] = "d" THEN << d \o <<"a.md">>, d \o <<"s", "b.md">> >>
    ELSE << d \o <<"b.md">>, d \o <<"s", "b.md">> >>

\* What open(path) finds: a.md is a title and a text line, b.md a title only,
\* c.md is empty.
FileAt(path) ==
    IF ~IsFile(path) THEN [exists |-> FALSE, lines |-> <<>>]
    ELSE IF path[Len(path)] = "a.md" THEN [exists |-> TRUE, lines |-> <<TitleLine, TextLine>>]
    ELSE IF path[Len(path)] = "b.md" THEN [exists |-> TRUE, lines |-> <<TitleLine>>]
    ELSE [exists |-> TRUE, lines |-> <<>>]

\* The paths callers pass to add_dir and add_file.
DirInputs == {<<"d">>, <<"nx">>}
FileInputs == {<<"c.md">>, <<"nx.md">>}

\* self.root / path, or Path(path)
ResolvePath(rt, path) == rt \o path

\* The key a plugin is in a dict: hash and equality go by the class name.
KeyOf(p) == p.type

\* d[key] = value
DictSet(d, key, value) ==
    [k \in DOMAIN d \cup {key} |-> IF k = key THEN value ELSE d[k]]

\* The branch `if plugin:` of add_dir and add_file: d[plugin] raises KeyError
\* when the plugin is no key, and a list has no setdefault when it is one.
PluginScopeError(d, p) ==
    IF KeyOf(p) \notin DOMAIN d THEN "KeyError" ELSE "AttributeError"

\* add_dir
AddDir(path, p) ==
    LET full == ResolvePath(root, path)
    IN  /\ manager = "MarkdownManager"
        /\ logged' = IF IsDir(full) THEN <<>> ELSE <<"is not a directory">>
        /\ IF p # NoPlugin
           THEN /\ raised' = PluginScopeError(included_dirs, p)
                /\ UNCHANGED included_dirs
           ELSE /\ Len(included_dirs["common"]) < MaxScope
                /\ included_dirs' =
                       [included_dirs EXCEPT !["common"] = Append(@, full)]
                /\ raised' = "None"
        /\ op' = "add_dir"
        /\ invoked' = <<>>
        /\ UNCHANGED <<manager, plugins, queued, valid, last_hash, tags, textVars,
                       root, included_files, resolved, trace>>

\* add_file: the common scope is a list, and the code calls setdefault on it.
AddFile(path, p) ==
    LET full == ResolvePath(root, path)
    IN  /\ manager = "MarkdownManager"
        /\ logged' = IF IsFile(full) THEN <<>> ELSE <<"is not a file">>
        /\ raised' = IF p # NoPlugin
                     THEN PluginScopeError(included_files, p)
                     ELSE "AttributeError"
        /\ op' = "add_file"
        /\ invoked' = <<>>
        /\ UNCHANGED <<manager, plugins, queued, valid, last_hash, tags, textVars,
                       scopeVars>>

\* The lists of directories a caller stores for a plugin.
DirLists == { << <<"d">> >>, << <<"g">> >>, << <<"d">>, <<"nx">> >> }

\* included_dirs hands the caller the dict itself; the caller stores a list of
\* directories under a plugin: manager.included_dirs[plugin] = dirs.
IncludedDirsSet(p, dirs) ==
    /\ manager = "MarkdownManager"
    /\ included_dirs' = DictSet(included_dirs, KeyOf(p), dirs)
    /\ op' = "included_dirs"
    /\ raised' = "None"
    /\ logged' = <<>>
    /\ invoked' = <<>>
    /\ UNCHANGED <<manager, plugins, queued, valid, last_hash, tags, textVars,
                   root, included_files, resolved, trace>>

RECURSIVE GlobAll(_)
\* for d in dirs: files.extend(d.glob("**/*.md"))
GlobAll(dirs) == IF dirs = <<>> THEN <<>> ELSE Glob(Head(dirs)) \o GlobAll(Tail(dirs))

\* plugin_files(plugin), on the scope dicts ds and fs
PluginFilesOf(ds, fs, p) ==
    LET fromDirs == IF KeyOf(p) \in DOMAIN ds THEN GlobAll(ds[KeyOf(p)]) ELSE <<>>
        fromFiles == IF KeyOf(p) \in DOMAIN fs THEN fs[KeyOf(p)] ELSE <<>>
    IN  fromDirs \o fromFiles \o fs["common"]

PluginFiles(p) == PluginFilesOf(included_dirs, included_files, p)

\* plugin_files called by the caller
ReadPluginFiles(p) ==
    /\ manager = "MarkdownManager"
    /\ resolved' = PluginFiles(p)
    /\ op' = "plugin_files"
    /\ raised' = "None"
    /\ logged' = <<>>
    /\ invoked' = <<>>
    /\ UNCHANGED <<manager, plugins, queued, valid, last_hash, tags, textVars,
                   root, included_dirs, included_files, trace>>

\* ------------------------------------------ manager.py: run and execute
\* One step of an execute call: a queued command called, the queue cleared,
\* or a hook called on a file.
Event(kind, e) == [kind |-> kind, entry |-> e]
ClearEvent == Event("clear", Entry(NoPlugin, "clear", <<>>))

\* plugin.hook(file): whether a hook was called, and the exception raised.
\* Title and TitleTags have no hook.
HookOn(p, path, tg) ==
    IF ~HasAttr(p, "hook")
    THEN [called |-> FALSE, exc |-> "AttributeError"]
    ELSE IF p.type = "Tag"
    THEN [called |-> TRUE, exc |-> TagHook(tg[p.id], FileAt(path))]
    ELSE [called |-> TRUE, exc |-> TocHook(FileAt(path))]

RECURSIVE HookFiles(_, _, _, _)
\* for file in self.plugin_files(plugin): plugin.hook(file)
HookFiles(p, files, tg, tr) ==
    IF files = <<>>
    THEN [trace |-> tr, exc |-> "None"]
    ELSE LET h == HookOn(p, Head(files), tg)
             tr2 == IF h.called
                    THEN Append(tr, Event("hook", Entry(p, "hook", Head(files))))
                    ELSE tr
         IN  IF h.exc # "None"
             THEN [trace |-> tr2, exc |-> h.exc]
             ELSE HookFiles(p, Tail(files), tg, tr2)

RECURSIVE RunPlugins(_, _, _)
\* run_plugins: for plugin in self.plugins
RunPlugins(ps, tg, tr) ==
    IF ps = <<>>
    THEN [trace |-> tr, exc |-> "None"]
    ELSE LET r == HookFiles(Head(ps), PluginFiles(Head(ps)), tg, tr)
         IN  IF r.exc # "None" THEN r ELSE RunPlugins(Tail(ps), tg, r.trace)

\* The hooks before the queued commands.
HooksFirst == <<"run_plugins", "run_queued_commands">>

\* run: the calls it makes, in order.
RunSteps == <<"run_queued_commands", "run_plugins">>

CommandEvents(es) == [i \in 1..Len(es) |-> Event("command", es[i])]

\* One call of run on the state st of the manager and its plugins.
RunStep(step, st, file) ==
    IF step = "run_queued_commands"
    THEN LET r == RunLoop(manager, IterOrder(st.queue), st.tags, file, <<>>)
         IN  [queue |-> IF r.exc = "None" THEN <<>> ELSE st.queue,
              tags |-> r.tags,
              invoked |-> r.invoked,
              trace |-> st.trace \o CommandEvents(r.invoked) \o
                        (IF r.exc = "None" THEN <<ClearEvent>> ELSE <<>>),
              exc |-> r.exc]
    ELSE LET h == RunPlugins(plugins, st.tags, st.trace)
         IN  [st EXCEPT !.trace = h.trace, !.exc = h.exc]

RECURSIVE RunAll(_, _, _)
RunAll(steps, st, file) ==
    IF steps = <<>> \/ st.exc # "None"
    THEN st
    ELSE RunAll(Tail(steps), RunStep(Head(steps), st, file), file)

\* execute(commands); file is what a queued hook finds at its path.
Execute(commands, file) ==
    LET q == QueueAll(manager, plugins, queued, commands, <<>>)
        st == RunAll(RunSteps,
                     [queue |-> q.queue, tags |-> tags, invoked |-> <<>>,
                      trace |-> <<>>, exc |-> "None"],
                     file)
    IN  /\ manager = "MarkdownManager"
        /\ Len(q.queue) <= MaxQueue
        /\ TotalTags(st.tags) <= MaxTags
        /\ queued' = st.queue
        /\ tags' = st.tags
        /\ invoked' = st.invoked
        /\ trace' = st.trace
        /\ raised' = st.exc
        /\ logged' = q.log
        /\ op' = "execute"
        /\ UNCHANGED <<manager, plugins, valid, last_hash, textVars,
                       root, included_dirs, included_files, resolved>>

\* The manager with a file scope: MarkdownManager(root).
InitScope ==
    /\ manager = "MarkdownManager"
    /\ plugins = <<>>
    /\ queued = <<>>
    /\ valid = <<>>
    /\ last_hash = NoHash
    /\ tags = [i \in TagIds |-> <<>>]
    /\ op = "init"
    /\ raised = "None"
    /\ logged = <<>>
    /\ invoked = <<>>
    /\ root \in Roots
    /\ included_dirs = [k \in {"common"} |-> <<>>]
    /\ included_files = [k \in {"common"} |-> <<>>]
    /\ resolved = <<>>
    /\ trace = <<>>
    /\ doc = <<>>
    /\ result = NoResult

\* Registering scopes and resolving the files of a plugin.
NextScope ==
    \/ \E p \in Instances : AddPlugin(p)
    \/ \E path \in DirInputs, p \in {NoPlugin, TagA, TitleC} : AddDir(path, p)
    \/ \E path \in FileInputs, p \in {NoPlugin, TagA, TitleC} : AddFile(path, p)
    \/ \E dirs \in DirLists : IncludedDirsSet(TagA, dirs)
    \/ \E p \in RemoveInputs : ReadPluginFiles(p)

SpecScope == InitScope /\ [][NextScope]_vars

\* The commands callers queue and pass to execute where hooks run.
ExecCalls ==
    { Entry(TagA, "add_tag", <<"x">>), Entry(TagA, "remove_tag", <<"x">>),
      Entry(TagB, "add_tag", <<"x">>) }
ExecBatches == {<<>>} \cup {<<c>> : c \in ExecCalls}
\* The plugins registered there: the two Tags, which share one scope.
ExecRegistrants == {TagA, TagB}
ExecDirLists == { << <<"d">> >>, << <<"g">> >> }

\* Queueing commands and running them and the hooks.
NextExec ==
    \/ \E p \in ExecRegistrants : AddPlugin(p)
    \/ \E dirs \in ExecDirLists : IncludedDirsSet(TagA, dirs)
    \/ \E c \in ExecCalls : QueueCommand(c.plugin, c.cmd, c.args)
    \/ \E batch \in ExecBatches : Execute(batch, FileAt(<<"nx">>))

SpecExec == Init /\ [][NextExec]_vars

\* ------------------------------------- commands with declared metadata
\* The plugins registered where commands declare required_args and
\* depends_on, and the tuples queued there.
MetaRegistrants == {TagA, TitleC, TitleTagsD, TocE}
MetaCalls ==
    { Entry(TagA, "add_tag", <<"x">>),
      Entry(TitleC, "modify_title", <<>>),
      Entry(TitleTagsD, "add_tags", <<>>),
      Entry(TitleTagsD, "add_tags", <<"x", "y">>),
      Entry(TocE, "modify_toc", <<"x">>) }

NextMeta ==
    \/ \E p \in MetaRegistrants : AddPlugin(p)
    \/ \E c \in MetaCalls : QueueCommand(c.plugin, c.cmd, c.args)
    \/ RunQueuedCommands(FileAt(<<"nx">>))

SpecMeta == Init /\ [][NextMeta]_vars

\* The registry with every plugin type, and the commands it lists.
NextCommands ==
    \/ \E p \in MetaRegistrants : AddPlugin(p)
    \/ ReadValidCommands

SpecCommands == Init /\ [][NextCommands]_vars

\* ------------------------------------------- the tag-insertion transform
\* "[#a]\n"
TagLine == <<"[", "#", "a", "]", "\n">>

\* The documents the transforms are applied to: without a title, with the
\* title last, and with a text line or a bracketed tag list after the title.
TextDocs ==
    { <<>>, <<TextLine>>, <<TextLine, TextLine>>, <<TagLine>>,
      <<TitleLine>>, <<TextLine, TitleLine>>,
      <<TitleLine, TextLine>>, <<TitleLine, TagLine>>,
      <<TextLine, TitleLine, TagLine>>, <<TitleLine, TagLine, TextLine>> }

\* The tags a caller gives Tag(tags) and add_tags(lines, tags).
TagLists == { <<>>, <<"b">>, <<"b", "c">> }

\* TitleTags.add_tags(lines, tags): what it returns and the exception it
\* raises.  When the title is not the last line it reads self.tags, an
\* attribute TitleTags does not have; nothing after that line is reached.
TitleTagsAddTags(lines, tgs) ==
    IF ScanTitle(lines, 0) + 1 = Len(lines)
    THEN [kind |-> "list", lines |-> <<>>, exc |-> "None"]
    ELSE [kind |-> "-", lines |-> <<>>, exc |-> "AttributeError"]

\* TitleTags().add_tags(lines, tags), called on a document
AddTagsCall(lines, tgs) ==
    LET r == TitleTagsAddTags(lines, tgs)
    IN  /\ doc' = lines
        /\ result' = [kind |-> r.kind, lines |-> r.lines]
        /\ raised' = r.exc
        /\ op' = "add_tags"
        /\ logged' = <<>>
        /\ invoked' = <<>>
        /\ UNCHANGED <<manager, plugins, queued, valid, last_hash, tags, scopeVars>>

\* p.hook(path) on a Tag, the file at path holding lines.  The only return
\* the hook reaches is `return False`; it raises before it writes the file.
TagHookCall(p, lines) ==
    LET exc == TagHook(tags[p.id], [exists |-> TRUE, lines |-> lines])
    IN  /\ doc' = lines
        /\ result' = [kind |-> IF exc = "None" THEN "False" ELSE "-", lines |-> <<>>]
        /\ raised' = exc
        /\ op' = "hook"
        /\ logged' = <<>>
        /\ invoked' = <<>>
        /\ UNCHANGED <<manager, plugins, queued, valid, last_hash, tags, scopeVars>>

\* Tag(tags) for the two Tags, and no manager call made.
InitText ==
    /\ manager = "MarkdownManager"
    /\ plugins = <<>>
    /\ queued = <<>>
    /\ valid = <<>>
    /\ last_hash = NoHash
    /\ tags \in [TagIds -> TagLists]
    /\ TotalTags(tags) <= MaxTags
    /\ op = "init"
    /\ raised = "None"
    /\ logged = <<>>
    /\ invoked = <<>>
    /\ root = NoRoot
    /\ included_dirs = [k \in {"common"} |-> <<>>]
    /\ included_files = [k \in {"common"} |-> <<>>]
    /\ resolved = <<>>
    /\ trace = <<>>
    /\ doc = <<>>
    /\ result = NoResult

NextText ==
    \/ \E lines \in TextDocs, tgs \in TagLists : AddTagsCall(lines, tgs)
    \/ \E p \in {TagA, TagB}, lines \in TextDocs : TagHookCall(p, lines)

SpecText == InitText /\ [][NextText]_vars

\* ------------------------------------------------ the table of contents
\* "## S\n", "# a#b\n" and "- T"
SubLine == <<"#", "#", " ", "S", "\n">>
HashLine == <<"#", " ", "a", "#", "b", "\n">>
ItemLine == <<"-", " ", "T">>

\* The lines of the documents handed to the table of contents: headings of
\* depth one and two, a heading with a marker inside its title, text, and the
\* heading, an entry and the separator of a table of contents.
TocLines == {TitleLine, SubLine, HashLine, TextLine, TocHeading, ItemLine, TocSeparator}
TocDocs == UNION {[1..n -> TocLines] : n \in 0..MaxLines}

\* TableOfContents().modify_toc(lines)
ModifyTocCall(lines) ==
    LET r == ModifyToc(lines)
    IN  /\ doc' = lines
        /\ result' = [kind |-> r.kind, lines |-> r.lines]
        /\ raised' = r.exc
        /\ op' = "modify_toc"
        /\ logged' = <<>>
        /\ invoked' = <<>>
        /\ UNCHANGED <<manager, plugins, queued, valid, last_hash, tags, scopeVars>>

\* TableOfContents().generate_toclist_from_lines(lines)
GenerateToclistCall(lines) ==
    /\ doc' = lines
    /\ result' = [kind |-> "list", lines |-> GenerateToclistFromLines(lines)]
    /\ raised' = "None"
    /\ op' = "generate_toclist_from_lines"
    /\ logged' = <<>>
    /\ invoked' = <<>>
    /\ UNCHANGED <<manager, plugins, queued, valid, last_hash, tags, scopeVars>>

\* The caller hands modify_toc a document, or the list the last modify_toc
\* returned.
NextToc ==
    \/ \E lines \in TocDocs : ModifyTocCall(lines)
    \/ /\ op = "modify_toc"
       /\ result.kind = "list"
       /\ ModifyTocCall(result.lines)
    \/ \E lines \in TocDocs : GenerateToclistCall(lines)

SpecToc == Init /\ [][NextToc]_vars

\* ------------------------------------------------------------------ claims
SameTuple(a, b) == a.plugin.type = b.plugin.type /\ a.cmd = b.cmd /\ a.args = b.args

\* C1: run_queued_commands invokes the queued commands in queue order: the
\* i-th command invoked is the i-th queued entry, a run that ends normally
\* has invoked the whole queue, and add_tag x then add_tag y on one Tag
\* appends x, y in this order.
C1_FifoOrder ==
    [][\A file \in Files :
        RunQueuedCommands(file) =>
            /\ Len(invoked') <= Len(queued)
            /\ \A i \in 1..Len(invoked') : invoked'[i] = queued[i]
            /\ raised' = "None" => invoked' = queued
            /\ ( /\ raised' = "None"
                 /\ queued = << Entry(TagA, "add_tag", <<"x">>),
                                Entry(TagA, "add_tag", <<"y">>) >> )
               => tags'["a"] = tags["a"] \o <<"x", "y">>
      ]_vars

C1_Witness ==
    /\ op = "run_queued_commands"
    /\ raised = "None"
    /\ invoked = <<Entry(TagA, "add_tag", <<"x">>), Entry(TagA, "add_tag", <<"y">>)>>
    /\ tags["a"] = <<"x", "y">>

\* C2: queue_command with a plugin that is not registered leaves the queue
\* unchanged, reports an error and raises nothing to the caller.
C2_UnregisteredRejected ==
    [][\A c \in Calls :
        ( /\ QueueCommand(c.plugin, c.cmd, c.args)
          /\ \A i \in 1..Len(plugins) : plugins[i].type # c.plugin.type )
        => /\ queued' = queued
           /\ logged' # <<>>
           /\ raised' = "None"
      ]_vars

\* C3: queue_command with a registered plugin appends the entry only when the
\* name is a key of plugin.commands; any other name leaves the queue unchanged.
C3_OnlyDeclaredCommands ==
    [][\A c \in Calls :
        ( /\ QueueCommand(c.plugin, c.cmd, c.args)
          /\ \E i \in 1..Len(plugins) : plugins[i].type = c.plugin.type
          /\ c.cmd \notin Range(Commands(c.plugin.type)) )
        => queued' = queued
      ]_vars

\* C4: every entry of the command queue references a registered plugin.
C4_QueueReferencesRegistered ==
    \A i \in 1..Len(queued) :
        \E j \in 1..Len(plugins) : plugins[j].type = queued[i].plugin.type

\* C5: when run_queued_commands ends, the queue is empty, whether or not a
\* queued command failed.
C5_QueueEmptyAfterRun ==
    op = "run_queued_commands" => queued = <<>>

\* C6: a read of valid_commands returns exactly the command names declared by
\* the plugins registered at the time of the read.
C6_ValidCommandsExact ==
    op = "valid_commands" =>
        Range(valid) = UNION {Range(Commands(plugins[i].type)) : i \in 1..Len(plugins)}

\* C7: instances of one plugin type are equal and hash alike, instances of
\* different types are unequal, and remove_plugin with any instance of a
\* registered type, a fresh one included, removes exactly the first registered
\* plugin of that type and keeps the others in their order.
C7_EqualByType ==
    [][ /\ \A a, b \in RemoveInputs :
            /\ a.type = b.type => PluginEq(a, b) /\ PluginHash(a) = PluginHash(b)
            /\ a.type # b.type => ~PluginEq(a, b)
        /\ \A p \in RemoveInputs :
            ( /\ RemovePlugin(p)
              /\ \E i \in 1..Len(plugins) : plugins[i].type = p.type )
            => \E i \in 1..Len(plugins) :
                /\ plugins[i].type = p.type
                /\ \A j \in 1..(i - 1) : plugins[j].type # p.type
                /\ Len(plugins') = Len(plugins) - 1
                /\ \A j \in 1..(i - 1) : plugins'[j] = plugins[j]
                /\ \A j \in i..Len(plugins') : plugins'[j] = plugins[j + 1]
                /\ raised' = "None"
      ]_vars

\* Two Tags were registered with Title before them, and one was removed.
C7_Witness ==
    /\ op = "remove_plugin"
    /\ raised = "None"
    /\ plugins = <<TitleC, TagB>>

\* C8: remove_plugin of a plugin that is not registered is a no-op and raises
\* nothing to the caller.
C8_RemoveAbsentIsNoOp ==
    [][\A p \in RemoveInputs :
        ( /\ RemovePlugin(p)
          /\ \A i \in 1..Len(plugins) : plugins[i].type # p.type )
        => /\ plugins' = plugins
           /\ queued' = queued
           /\ raised' = "None"
      ]_vars

\* C9: remove_queued_command removes exactly the earliest queue entry equal
\* to its tuple and keeps the others in their order; with no such entry it
\* fails and leaves the queue unchanged.
C9_RemoveFirstMatch ==
    [][\A c \in Calls :
        RemoveQueuedCommand(c.plugin, c.cmd, c.args) =>
            IF \E i \in 1..Len(queued) : SameTuple(queued[i], c)
            THEN \E i \in 1..Len(queued) :
                    /\ SameTuple(queued[i], c)
                    /\ \A j \in 1..(i - 1) : ~SameTuple(queued[j], c)
                    /\ Len(queued') = Len(queued) - 1
                    /\ \A j \in 1..(i - 1) : queued'[j] = queued[j]
                    /\ \A j \in i..Len(queued') : queued'[j] = queued[j + 1]
                    /\ raised' = "None"
            ELSE queued' = queued /\ raised' # "None"
      ]_vars

\* A remove_queued_command call removed an entry and left one queued.
C9_Witness ==
    /\ op = "remove_queued_command"
    /\ raised = "None"
    /\ queued = <<Entry(TagB, "add_tag", <<"x">>)>>

\* C10: queue_commands validates each tuple on its own: afterwards the queue
\* is the previous queue followed by the tuples that pass validation, in list
\* order; an invalid tuple does not keep the later ones from being queued.
PassesValidation(e) == Validate(plugins, e) = "ok"
C10_BatchIndependent ==
    [][\A batch \in Batches :
        QueueCommands(batch) => queued' = queued \o SelectSeq(batch, PassesValidation)
      ]_vars

\* The files the scope of plugin p comprises: the documents of its
\* directories, its files, the documents of the common directories and the
\* common files.
InScope(d, key) == IF key \in DOMAIN d THEN d[key] ELSE <<>>
ScopeUnion(p) ==
    Range(GlobAll(InScope(included_dirs, KeyOf(p))))
        \cup Range(InScope(included_files, KeyOf(p)))
        \cup Range(GlobAll(included_dirs["common"]))
        \cup Range(included_files["common"])
NoDuplicates(s) == \A i, j \in 1..Len(s) : s[i] = s[j] => i = j

\* C11: plugin_files(plugin) returns, without duplicates, exactly the union of
\* the documents in the plugin's directories, the plugin's files, the
\* documents in the common directories and the common files; a plugin with no
\* scope of its own gets the common set.
C11_ScopeUnion ==
    [][\A p \in RemoveInputs :
        ReadPluginFiles(p) =>
            /\ Range(resolved') = ScopeUnion(p)
            /\ NoDuplicates(resolved')
            /\ raised' = "None"
      ]_vars

\* The scope a registration with plugin p belongs to.
ScopeKey(p) == IF p = NoPlugin THEN "common" ELSE KeyOf(p)

\* C12: add_dir and add_file raise nothing, and afterwards the path, resolved
\* against the root, is recorded in the scope of the plugin given, or in the
\* common scope when none is given.
C12_RegistrationNeverFails ==
    [][\A p \in {NoPlugin, TagA, TitleC} :
        /\ \A path \in DirInputs :
            AddDir(path, p) =>
                /\ raised' = "None"
                /\ ResolvePath(root, path) \in Range(InScope(included_dirs', ScopeKey(p)))
        /\ \A path \in FileInputs :
            AddFile(path, p) =>
                /\ raised' = "None"
                /\ ResolvePath(root, path) \in Range(InScope(included_files', ScopeKey(p)))
      ]_vars

IsPrefix(a, b) == Len(a) <= Len(b) /\ \A i \in 1..Len(a) : a[i] = b[i]
IsHook(ev) == ev.kind = "hook"
IsCommand(ev) == ev.kind = "command"
HooksOf(p) ==
    [i \in 1..Len(PluginFiles(p)) |-> Event("hook", Entry(p, "hook", PluginFiles(p)[i]))]
RECURSIVE ExpectedHooks(_)
\* Every registered plugin in registration order, each over all its files.
ExpectedHooks(ps) ==
    IF ps = <<>> THEN <<>> ELSE HooksOf(Head(ps)) \o ExpectedHooks(Tail(ps))

\* C13: execute queues the commands it is given, then calls the queued
\* commands in queue order and clears the queue, and only then calls the
\* hooks, plugin by plugin in registration order, each plugin over all its
\* files; no hook is called before every queued command was called and the
\* queue cleared; with no commands given it runs the pending queue and the
\* hooks.
C13_ExecuteOrder ==
    [][\A batch \in ExecBatches :
        Execute(batch, FileAt(<<"nx">>)) =>
            LET q == queued \o SelectSeq(batch, PassesValidation)
                hooks == SelectSeq(trace', IsHook)
                cmds == SelectSeq(trace', IsCommand)
            IN  /\ IsPrefix(cmds, CommandEvents(q))
                /\ IsPrefix(hooks, ExpectedHooks(plugins))
                /\ \A i, j \in 1..Len(trace') :
                       (trace'[i].kind = "hook" /\ trace'[j].kind # "hook") => j < i
                /\ hooks # <<>> =>
                       /\ cmds = CommandEvents(q)
                       /\ \E c \in 1..Len(trace') : trace'[c] = ClearEvent
                       /\ queued' = <<>>
                /\ raised' = "None" =>
                       /\ cmds = CommandEvents(q)
                       /\ hooks = ExpectedHooks(plugins)
                       /\ queued' = <<>>
      ]_vars

\* execute([(TagA, add_tag, x)]) with TagA and TagB registered and the
\* directory g in their scope: one command, the clear, then four hooks.
C13_Witness ==
    /\ op = "execute"
    /\ raised = "None"
    /\ plugins = <<TagA, TagB>>
    /\ trace = << Event("command", Entry(TagA, "add_tag", <<"x">>)),
                  ClearEvent,
                  Event("hook", Entry(TagA, "hook", <<"g", "b.md">>)),
                  Event("hook", Entry(TagA, "hook", <<"g", "s", "b.md">>)),
                  Event("hook", Entry(TagB, "hook", <<"g", "b.md">>)),
                  Event("hook", Entry(TagB, "hook", <<"g", "s", "b.md">>)) >>

\* C14: once the hook pass of execute has begun, a hook that fails does not
\* stop it: the hook is called on every file of every registered plugin.
C14_HookPassContinues ==
    [][\A batch \in ExecBatches :
        ( /\ Execute(batch, FileAt(<<"nx">>))
          /\ \E c \in 1..Len(trace') : trace'[c] = ClearEvent )
        => SelectSeq(trace', IsHook) = ExpectedHooks(plugins)
      ]_vars

\* C15: a queued command that fails does not abort run_queued_commands: every
\* command queued behind the first one is called, and the commands called are
\* in queue order.
C15_RunContinues ==
    [][\A file \in Files :
        RunQueuedCommands(file) =>
            /\ \A i \in 2..Len(queued) : queued[i] \in Range(invoked')
            /\ \A i, j \in 1..Len(invoked') :
                   i < j => \E m, n \in 1..Len(queued) :
                                m < n /\ queued[m] = invoked'[i] /\ queued[n] = invoked'[j]
      ]_vars

\* The queued command declares more required_args than it has arguments.
Short(e) ==
    /\ RequiredArgs(e.plugin, e.cmd) # NoMeta
    /\ Len(e.args) < Len(RequiredArgs(e.plugin, e.cmd))

\* C16: when PluginManager.run_queued_commands meets a command with fewer
\* arguments than its required_args, it reports an error and still calls the
\* command with the arguments supplied.
C16_ArityReportedAndCalled ==
    [][ ( /\ RunQueuedCommands(FileAt(<<"nx">>))
          /\ manager = "PluginManager"
          /\ queued # <<>>
          /\ Short(queued[1]) )
        => /\ logged' # <<>>
           /\ invoked' # <<>>
           /\ invoked'[1] = queued[1]
      ]_vars

\* The command at position i of queue q declares a dependency on a plugin
\* that is not registered or that has no command earlier in the queue.
DependencyUnmet(q, i) ==
    /\ DependsOn(q[i].plugin, q[i].cmd) # NoMeta
    /\ \E d \in Range(DependsOn(q[i].plugin, q[i].cmd)) :
           \/ \A k \in 1..Len(plugins) : plugins[k].type # d
           \/ \A j \in 1..(i - 1) : q[j].plugin.type # d
\* Nothing before position i keeps the loop from getting there: the commands
\* before it are add_tag calls on a Tag under MarkdownManager, which return.
ReachedCleanly(q, i) ==
    \/ i = 1
    \/ /\ manager = "MarkdownManager"
       /\ \A j \in 1..(i - 1) :
              q[j].plugin.type = "Tag" /\ q[j].cmd = "add_tag" /\ Len(q[j].args) = 1

\* C17: depends_on is not enforced: run_queued_commands calls the commands in
\* queue order and leaves none out, and a command whose dependency plugin is
\* not registered, or has run no command before it, is called at its queue
\* position like any other (PluginManager: when it has its required
\* arguments).
C17_DependsOnNotEnforced ==
    [][ RunQueuedCommands(FileAt(<<"nx">>)) =>
            /\ IsPrefix(invoked', queued)
            /\ raised' = "None" => invoked' = queued
            /\ \A i \in 1..Len(queued) :
                   ( /\ DependencyUnmet(queued, i)
                     /\ ReachedCleanly(queued, i)
                     /\ manager = "PluginManager" => ~Short(queued[i]) )
                   => /\ Len(invoked') >= i
                      /\ invoked'[i] = queued[i]
      ]_vars

\* TitleTags.add_tags, which depends on Title, was called second in the queue
\* with no Title registered.
C17_Witness ==
    /\ op = "run_queued_commands"
    /\ \A k \in 1..Len(plugins) : plugins[k].type # "Title"
    /\ invoked = << Entry(TagA, "add_tag", <<"x">>),
                    Entry(TitleTagsD, "add_tags", <<"x", "y">>) >>
    /\ tags["a"] = <<"x">>

\* The names of the methods a class body marks as commands.
MarkedNames(type) ==
    {ClassBody(type)[i].name : i \in {j \in 1..Len(ClassBody(type)) : ClassBody(type)[j].marked}}

\* C18: plugin.commands holds exactly the names of the methods marked as
\* commands, for every plugin type, and for TitleTags these are add_tag,
\* add_tags, remove_tag and remove_tags, as the repository's test expects; the
\* first read of valid_commands lists them for the registered plugins.
C18_CommandsAreMarked ==
    [][ ( /\ ReadValidCommands
          /\ last_hash = NoHash )
        => /\ \A t \in PluginTypes : Range(Commands(t)) = MarkedNames(t)
           /\ Range(valid') = UNION {MarkedNames(plugins[i].type) : i \in 1..Len(plugins)}
           /\ \A i \in 1..Len(plugins) :
                  plugins[i].type = "TitleTags" =>
                      Range(Commands(plugins[i].type)) =
                          {"add_tag", "add_tags", "remove_tag", "remove_tags"}
      ]_vars

\* "[#a, #b]\n"
TagLineWithB == <<"[", "#", "a", ",", " ", "#", "b", "]", "\n">>

\* C19: the tag-insertion transform, applied to a document whose line after
\* the title is a bracketed tag list, appends the tags inside the bracket and
\* adds no line: ["# T\n", "[#a]\n"] with tag b gives ["# T\n", "[#a, #b]\n"].
C19_AppendsIntoBracket ==
    [][ /\ AddTagsCall(<<TitleLine, TagLine>>, <<"b">>) =>
            /\ raised' = "None"
            /\ result' = [kind |-> "list", lines |-> <<TitleLine, TagLineWithB>>]
        /\ \A p \in {TagA, TagB} :
            ( /\ TagHookCall(p, <<TitleLine, TagLine>>)
              /\ tags[p.id] = <<"b">> )
            => /\ raised' = "None"
               /\ doc' = <<TitleLine, TagLineWithB>>
      ]_vars

\* No line of the document, stripped, starts with "# ".
NoTitle(lines) == ScanTitle(lines, 0) = Len(lines)

\* C20: on a document without a title line, the empty one included, the
\* tag-insertion transform raises nothing, returns its no-modification result
\* ([] from add_tags, False from the hook) and leaves the document unchanged.
C20_NoTitleNoModification ==
    [][\A lines \in TextDocs :
        NoTitle(lines) =>
            /\ \A tgs \in TagLists :
                AddTagsCall(lines, tgs) =>
                    /\ raised' = "None"
                    /\ result' = [kind |-> "list", lines |-> <<>>]
                    /\ doc' = lines
            /\ \A p \in {TagA, TagB} :
                TagHookCall(p, lines) =>
                    /\ raised' = "None"
                    /\ result' = [kind |-> "False", lines |-> <<>>]
                    /\ doc' = lines
      ]_vars

RECURSIVE CountLines(_, _)
\* How many lines of a document start with a prefix.
CountLines(lines, prefix) ==
    IF lines = <<>> THEN 0
    ELSE (IF StartsWith(Head(lines), prefix) THEN 1 ELSE 0) + CountLines(Tail(lines), prefix)

\* C21: modify_toc is idempotent: on every document, with or without a table
\* of contents, it returns a document with exactly one table of contents
\* (and, where the document held no separator, exactly one separator), and
\* applied to the lines it returned it returns the same lines again.
C21_ModifyTocIdempotent ==
    [][ /\ \A lines \in TocDocs :
            ModifyTocCall(lines) =>
                /\ raised' = "None"
                /\ CountLines(result'.lines, TocHeading) = 1
                /\ TocSeparator \notin Range(lines) =>
                       CountLines(result'.lines, TocSeparator) = 1
        /\ ( /\ op = "modify_toc"
             /\ result.kind = "list"
             /\ ModifyTocCall(result.lines) )
           => /\ raised' = "None"
              /\ result' = result
      ]_vars

\* The number of marker characters a heading line starts with, and the
\* number of blanks an entry starts with.
LeadingHashes(line) == Len(line) - Len(LStripHash(line))
RECURSIVE LeadingBlanks(_)
LeadingBlanks(s) == IF s # <<>> /\ Head(s) = " " THEN 1 + LeadingBlanks(Tail(s)) ELSE 0

\* C22: the generated table of contents has one entry per heading line, in
\* document order, between its heading and its separator; the entry of a
\* heading is "- " and the heading's text, indented by as many blanks as the
\* heading line has leading '#'.
C22_TocEntriesByDepth ==
    [][\A lines \in TocDocs :
        GenerateToclistCall(lines) =>
            LET headings == SelectSeq(lines, IsHeading)
                toc == result'.lines
            IN  /\ Len(toc) = Len(headings) + 2
                /\ toc[1] = TocHeading
                /\ toc[Len(toc)] = TocSeparator
                /\ \A i \in 1..Len(headings) :
                       /\ LeadingBlanks(toc[i + 1]) = LeadingHashes(headings[i])
                       /\ SubSeq(toc[i + 1], LeadingBlanks(toc[i + 1]) + 1, Len(toc[i + 1]))
                              = <<"-", " ">> \o Strip(LStripHash(headings[i]))
      ]_vars

\* C23: a queued entry is invoked at most once: when a run_queued_commands
\* call has invoked entries of the queue, a run_queued_commands call that
\* follows it invokes none of them again, also when a command of the first
\* run failed.  (The queue is the one the first run worked on: no call came
\* between the two runs.)
C23_AtMostOnce ==
    [][\A file \in Files :
        ( /\ op = "run_queued_commands"
          /\ invoked # <<>>
          /\ RunQueuedCommands(file) )
        => invoked' = <<>>
      ]_vars

\* The queued command has exactly the arguments its required_args declare.
ExactArgs(e) ==
    /\ RequiredArgs(e.plugin, e.cmd) # NoMeta
    /\ Len(e.args) = Len(RequiredArgs(e.plugin, e.cmd))

\* C24: run_queued_commands calls a command with the document lines first
\* and the queued arguments after them: a command queued with exactly its
\* declared required_args is called, with one argument more than was queued,
\* as many as its signature has parameters, and does not fail for a missing
\* argument.
C24_LinesPassedFirst ==
    [][\A file \in Files :
        ( /\ RunQueuedCommands(file)
          /\ queued # <<>>
          /\ ExactArgs(queued[1]) )
        => /\ invoked' # <<>>
           /\ Len(CallArgs(queued[1])) = 1 + Len(queued[1].args)
           /\ Len(CallArgs(queued[1])) = Len(Parameters(queued[1].plugin.type, queued[1].cmd))
           /\ raised' # "TypeError"
      ]_vars

\* The position (from 1) of the first title line of a document that has one,
\* and whether the line after it is a bracketed tag list.
TitleAt(lines) == ScanTitle(lines, 0) + 1
TagListFollows(lines) ==
    /\ TitleAt(lines) < Len(lines)
    /\ StartsWith(Strip(lines[TitleAt(lines) + 1]), <<"[">>)
\* after is before with one bracketed line put in directly behind the title.
TagLineInserted(before, after) ==
    /\ Len(after) = Len(before) + 1
    /\ \A i \in 1..TitleAt(before) : after[i] = before[i]
    /\ StartsWith(after[TitleAt(before) + 1], <<"[">>)
    /\ \A i \in (TitleAt(before) + 1)..Len(before) : after[i + 1] = before[i]

\* C25: on a document with a title line, the last line included, and no tag
\* list directly after it, the tag-insertion transform (given tags) raises
\* nothing, reports a modification and yields the document with one
\* bracketed tag-list line inserted directly after the first title line, all
\* other lines unchanged and in order.
C25_InsertsAfterTitle ==
    [][\A lines \in TextDocs :
        ( ~NoTitle(lines) /\ ~TagListFollows(lines) ) =>
            /\ \A tgs \in TagLists \ {<<>>} :
                AddTagsCall(lines, tgs) =>
                    /\ raised' = "None"
                    /\ result'.kind = "list"
                    /\ TagLineInserted(lines, result'.lines)
            /\ \A p \in {TagA, TagB} :
                ( /\ TagHookCall(p, lines)
                  /\ tags[p.id] # <<>> )
                => /\ raised' = "None"
                   /\ result'.kind = "True"
                   /\ TagLineInserted(lines, doc')
      ]_vars

\* The cached list belongs to the registered plugin list as it is now.
CacheCurrent == last_hash = <<SumHash(plugins)>>

\* C26: valid_commands is recomputed only when the hash sum of the
\* registered plugins differs from the one stored by the last computation:
\* a read that finds it equal, and so a read that follows a read, returns the
\* list unchanged; a read stores the hash sum and changes neither the plugin
\* list nor the queue; and a call that leaves the plugin list alone leaves
\* the cache current, so that the next read returns the same list.
C26_RecomputedOnHashChange ==
    [][ /\ ReadValidCommands =>
            /\ CacheCurrent => valid' = valid
            /\ op = "valid_commands" => valid' = valid
            /\ valid' # valid => last_hash # <<SumHash(plugins)>>
            /\ last_hash' = <<SumHash(plugins)>>
            /\ plugins' = plugins
            /\ queued' = queued
        /\ ( CacheCurrent /\ plugins' = plugins ) =>
            /\ valid' = valid
            /\ last_hash' = last_hash
      ]_vars

\* A read after Tag and Title were registered and read, and the Tag then
\* removed and registered again behind Title: the hash sum was the same and
\* the read returned the list of the first read, the Tag commands first,
\* with a command in the queue.
C26_Witness ==
    /\ op = "valid_commands"
    /\ plugins = <<TitleC, TagA>>
    /\ valid = Commands("Tag") \o Commands("Title")
    /\ queued # <<>>

\* C27: a queued command is executed on the object passed to queue_command.
\* queue_command accepts an instance that is not registered but equal by
\* type to a registered plugin and queues that very instance; a run changes
\* the state of no instance other than those of the entries it called; and
\* under MarkdownManager, add_tag queued with the unregistered Tag b adds the
\* tag to b and, no entry naming the registered Tag a, leaves a as it was.
C27_RunsOnPassedInstance ==
    [][ /\ \A c \in Calls :
            ( /\ QueueCommand(c.plugin, c.cmd, c.args)
              /\ c.plugin \notin Range(plugins)
              /\ \E i \in 1..Len(plugins) : plugins[i].type = c.plugin.type
              /\ HasAttr(c.plugin, c.cmd) )
            => /\ queued' = Append(queued, c)
               /\ raised' = "None"
        /\ \A file \in Files :
            RunQueuedCommands(file) =>
                /\ \A id \in TagIds :
                       tags'[id] # tags[id] =>
                           \E i \in 1..Len(invoked') : invoked'[i].plugin.id = id
                /\ ( /\ manager = "MarkdownManager"
                     /\ queued # <<>>
                     /\ queued[1] = Entry(TagB, "add_tag", <<"x">>) )
                   => /\ invoked' # <<>>
                      /\ invoked'[1] = queued[1]
                      /\ "x" \in Range(tags'["b"])
                      /\ Len(tags'["b"]) > Len(tags["b"])
                      /\ (\A i \in 1..Len(queued) : queued[i].plugin # TagA)
                             => tags'["a"] = tags["a"]
      ]_vars

\* Tag a is registered, Tag b is not; add_tag x was queued with b and run:
\* b holds the tag, a holds none.
C27_Witness ==
    /\ op = "run_queued_commands"
    /\ raised = "None"
    /\ TagA \in Range(plugins)
    /\ invoked = <<Entry(TagB, "add_tag", <<"x">>)>>
    /\ tags = [a |-> <<>>, b |-> <<"x">>]

====
